---- MODULE Spec2Model ----
(***************************************************************************)
(* FluentNumber of fluent-bundle/src/types/number.rs: the option record    *)
(* and its merge, the canonical string (as_string), parsing (from_str)     *)
(* and the conversion into plural operands.                                *)
(*                                                                         *)
(* Text is a sequence of one-character strings.  An f64 is held as its     *)
(* exact decimal expansion [int, frac]: every finite double has one, and   *)
(* format!("{:.p$}") rounds exactly that expansion.  Option<T> is the      *)
(* empty set (None) or a singleton (Some).  Numbers that may exceed the    *)
(* model checker's integers (the usize fields f and t of the operands)     *)
(* are sequences of decimal digits without leading zeros.                  *)
(***************************************************************************)
EXTENDS Integers, Sequences, FiniteSets

VARIABLES env, src, num, out, operands, margs, before, op

vars == <<env, src, num, out, operands, margs, before, op>>

-----------------------------------------------------------------------------
(* Bounds of the model. *)

\* Longest fraction written in a decimal text handed to from_str.
MaxFracLen == 3
\* Largest digit count given for minimum/maximum_fraction_digits directly.
MaxDigits == 10
\* Most (key, value) pairs in one argument mapping handed to merge.
MaxArgs == 2

-----------------------------------------------------------------------------
(* Option<T> *)

None == {}
Some(x) == {x}
IsSome(o) == o # {}
Unwrap(o) == CHOOSE x \in o : TRUE
UnwrapOr(o, d) == IF o = {} THEN d ELSE CHOOSE x \in o : TRUE

-----------------------------------------------------------------------------
(* Text *)

DigitChar == <<"0", "1", "2", "3", "4", "5", "6", "7", "8", "9">>

CharDigit(c) == CHOOSE d \in 0..9 : DigitChar[d + 1] = c

Chars(ds) == [i \in 1..Len(ds) |-> DigitChar[ds[i] + 1]]

Digits(cs) == [i \in 1..Len(cs) |-> CharDigit(cs[i])]

Repeat(c, n) == [i \in 1..n |-> c]

\* str::find(c): the 0-based index of the first c.
Find(s, c) ==
    IF \E i \in 1..Len(s) : s[i] = c
    THEN Some((CHOOSE i \in 1..Len(s) : s[i] = c /\ \A j \in 1..(i - 1) : s[j] # c) - 1)
    ELSE None

\* str::trim_end_matches(c)
TrimEndMatches(s, c) ==
    IF \A i \in 1..Len(s) : s[i] = c THEN <<>>
    ELSE SubSeq(s, 1, CHOOSE i \in 1..Len(s) :
                        s[i] # c /\ \A j \in (i + 1)..Len(s) : s[j] = c)

\* str::trim_start_matches(c)
TrimStartMatches(s, c) ==
    IF \A i \in 1..Len(s) : s[i] = c THEN <<>>
    ELSE SubSeq(s, CHOOSE i \in 1..Len(s) :
                     s[i] # c /\ \A j \in 1..(i - 1) : s[j] = c, Len(s))

RECURSIVE NatDigits(_)
NatDigits(n) == IF n < 10 THEN <<n>> ELSE Append(NatDigits(n \div 10), n % 10)

RECURSIVE DigitsNat(_)
DigitsNat(ds) ==
    IF ds = <<>> THEN 0 ELSE 10 * DigitsNat(SubSeq(ds, 1, Len(ds) - 1)) + ds[Len(ds)]

RECURSIVE Pow10(_)
Pow10(k) == IF k = 0 THEN 1 ELSE 10 * Pow10(k - 1)

-----------------------------------------------------------------------------
(* f64 *)

\* Significand width of an IEEE 754 binary64.
MantissaBits == 53

RECURSIVE BitLen(_)
BitLen(n) == IF n = 0 THEN 0 ELSE 1 + BitLen(n \div 2)

RECURSIVE Pow2(_)
Pow2(k) == IF k = 0 THEN 1 ELSE 2 * Pow2(k - 1)

\* The arithmetic on expansions works on ChunkBits bits at a time.
ChunkBits == 8

ChunkToBits(q) == [i \in 1..ChunkBits |-> (q \div Pow2(ChunkBits - i)) % 2]

\* The first n chunks of the binary expansion of F / scale, and what is left.
RECURSIVE FracChunks(_, _, _)
FracChunks(F, scale, n) ==
    IF n = 0 THEN [bits |-> <<>>, rem |-> F]
    ELSE LET d == Pow2(ChunkBits) * F
             r == FracChunks(d % scale, scale, n - 1)
         IN [bits |-> SubSeq(ChunkToBits(d \div scale), 1, ChunkBits) \o r.bits,
             rem |-> r.rem]

\* bits + 1 in the last place; carry is 1 when every bit was 1.
IncBits(b) ==
    IF \A i \in 1..Len(b) : b[i] = 1
    THEN [bits |-> SubSeq([i \in 1..Len(b) |-> 0], 1, Len(b)), carry |-> 1]
    ELSE LET z == CHOOSE i \in 1..Len(b) : b[i] = 0 /\ \A j \in (i + 1)..Len(b) : b[j] = 1
         IN [bits |-> SubSeq([i \in 1..Len(b) |->
                                 IF i < z THEN b[i] ELSE IF i = z THEN 1 ELSE 0], 1, Len(b)),
             carry |-> 0]

RECURSIVE DigitsValueBin(_)
DigitsValueBin(b) ==
    IF b = <<>> THEN 0 ELSE 2 * DigitsValueBin(SubSeq(b, 1, Len(b) - 1)) + b[Len(b)]

\* The number written by the digits X[lo..hi] (at most ChunkBits of them).
RECURSIVE DigitsValue(_, _, _)
DigitsValue(X, lo, hi) ==
    IF hi < lo THEN 0 ELSE 10 * DigitsValue(X, lo, hi - 1) + X[hi]

\* (c + 0.D) / 2^ChunkBits as decimal digits, for an integer c < 2^ChunkBits:
\* long division, whose remainder before a digit depends on the ChunkBits
\* digits before it alone (10^ChunkBits is a multiple of 2^ChunkBits).
DivChunk(c, D) ==
    LET m == Pow2(ChunkBits)
        X == <<c \div 100, (c \div 10) % 10, c % 10>> \o D \o SubSeq([i \in 1..ChunkBits |-> 0], 1, ChunkBits)
        R(i) == DigitsValue(X, IF i > ChunkBits THEN i - ChunkBits + 1 ELSE 1, i) % m
    IN SubSeq([i \in 1..Len(X) |-> (10 * R(i - 1) + X[i]) \div m], 4, Len(X))

\* The exact decimal digits of the binary fraction 0.b1 b2 ... bn
\* (n a multiple of ChunkBits).
RECURSIVE BitsToDecimal(_)
BitsToDecimal(bits) ==
    IF bits = <<>> THEN <<>>
    ELSE LET c == DigitsValueBin(SubSeq(bits, 1, ChunkBits))
             rest == BitsToDecimal(SubSeq(bits, ChunkBits + 1, Len(bits)))
         IN DivChunk(c, rest)

\* f64::from_str on the plain decimal I.fd, and the double a literal I.fd
\* denotes: the nearest double (ties to even), as its exact decimal expansion.
F64FromDecimal(I, fd) ==
    LET scale == Pow10(Len(fd))
        F == DigitsNat(fd)
    IN IF F = 0 THEN [int |-> I, frac |-> <<>>]
       ELSE LET n == (BitLen(scale) + MantissaBits) \div ChunkBits + 1
                fc == FracChunks(F, scale, n)
                B == fc.bits
                \* the place of the last mantissa bit
                first == CHOOSE i \in 1..Len(B) : B[i] = 1 /\ \A j \in 1..(i - 1) : B[j] = 0
                P == IF I > 0 THEN MantissaBits - BitLen(I) ELSE first + MantissaBits - 1
                kept == SubSeq(B, 1, P)
                sticky == fc.rem # 0 \/ \E j \in (P + 2)..Len(B) : B[j] = 1
                up == B[P + 1] = 1 /\ (sticky \/ B[P] = 1)
                rb == IF up THEN IncBits(kept) ELSE [bits |-> kept, carry |-> 0]
                pad == (ChunkBits - (P % ChunkBits)) % ChunkBits
                padded == rb.bits \o SubSeq([i \in 1..pad |-> 0], 1, pad)
            IN [int |-> I + rb.carry,
                frac |-> TrimEndMatches(BitsToDecimal(padded), 0)]

\* `value as usize` for a non-negative value: truncation.
AsUsize(value) == value.int

\* ds + 1 in the last place; carry is 1 when every digit was 9.
IncDigits(ds) ==
    IF \A i \in 1..Len(ds) : ds[i] = 9
    THEN [digits |-> SubSeq([i \in 1..Len(ds) |-> 0], 1, Len(ds)), carry |-> 1]
    ELSE LET z == CHOOSE i \in 1..Len(ds) : ds[i] # 9 /\ \A j \in (i + 1)..Len(ds) : ds[j] = 9
         IN [digits |-> SubSeq([i \in 1..Len(ds) |->
                                   IF i < z THEN ds[i] ELSE IF i = z THEN ds[i] + 1 ELSE 0],
                               1, Len(ds)),
             carry |-> 0]

\* format!("{:.p$}", value): fixed notation with exactly p fraction digits,
\* the exact value rounded to nearest, ties to even; no '.' when p = 0.
FormatFixed(value, p) ==
    LET D == value.frac
        n == Len(D)
        kept == IF p >= n THEN D \o Repeat(0, p - n) ELSE SubSeq(D, 1, p)
        lastOdd == IF p = 0 THEN value.int % 2 = 1 ELSE kept[p] % 2 = 1
        up == /\ p < n
              /\ \/ D[p + 1] > 5
                 \/ D[p + 1] = 5 /\ (n > p + 1 \/ lastOdd)
        r == IF up THEN IncDigits(kept) ELSE [digits |-> kept, carry |-> 0]
        ip == Chars(NatDigits(value.int + r.carry))
    IN IF p = 0 THEN ip ELSE ip \o <<".">> \o Chars(r.digits)

-----------------------------------------------------------------------------
(* FluentNumberStyle, FluentNumberCurrencyDisplayStyle, FluentNumberOptions *)

\* impl From<&str> for FluentNumberStyle
StyleFrom(input) ==
    CASE input = "decimal" -> "Decimal"
      [] input = "currency" -> "Currency"
      [] input = "percent" -> "Percent"
      [] OTHER -> "Decimal"

\* impl From<&str> for FluentNumberCurrencyDisplayStyle
CurrencyDisplayFrom(input) ==
    CASE input = "symbol" -> "Symbol"
      [] input = "code" -> "Code"
      [] input = "name" -> "Name"
      [] OTHER -> "Symbol"

\* impl Default for FluentNumberOptions
DefaultOptions ==
    [style |-> "Decimal",
     currency |-> None,
     currency_display |-> "Symbol",
     use_grouping |-> TRUE,
     minimum_integer_digits |-> None,
     minimum_fraction_digits |-> None,
     maximum_fraction_digits |-> None,
     minimum_significant_digits |-> None,
     maximum_significant_digits |-> None]

\* FluentValue::String(s), FluentValue::Number(n) with n = FluentNumber::from(value)
FvString(s) == [kind |-> "String", s |-> s, n |-> [int |-> 0, frac |-> <<>>]]
FvNumber(v) == [kind |-> "Number", s |-> "", n |-> v]

\* MergePair with the "style" arm taking a value of any kind.
MergePairAnyKindStyle(o, key, value) ==
    CASE key = "style" ->
            [o EXCEPT !.style = StyleFrom(value.s)]
      [] key = "currency" /\ value.kind = "String" ->
            [o EXCEPT !.currency = Some(value.s)]
      [] key = "currencyDisplay" /\ value.kind = "String" ->
            [o EXCEPT !.currency_display = CurrencyDisplayFrom(value.s)]
      [] key = "minimumIntegerDigits" /\ value.kind = "Number" ->
            [o EXCEPT !.minimum_integer_digits = Some(AsUsize(value.n))]
      [] key = "minimumFractionDigits" /\ value.kind = "Number" ->
            [o EXCEPT !.minimum_fraction_digits = Some(AsUsize(value.n))]
      [] key = "maximumFractionDigits" /\ value.kind = "Number" ->
            [o EXCEPT !.maximum_fraction_digits = Some(AsUsize(value.n))]
      [] key = "minimumSignificantDigits" /\ value.kind = "Number" ->
            [o EXCEPT !.minimum_significant_digits = Some(AsUsize(value.n))]
      [] key = "maximumSignificantDigits" /\ value.kind = "Number" ->
            [o EXCEPT !.maximum_significant_digits = Some(AsUsize(value.n))]
      [] OTHER -> o

\* One arm of the match in merge, for the pair (key, value).
MergePair(o, key, value) ==
    CASE key = "style" /\ value.kind = "String" ->
            [o EXCEPT !.style = StyleFrom(value.s)]
      [] key = "currency" /\ value.kind = "String" ->
            [o EXCEPT !.currency = Some(value.s)]
      [] key = "currencyDisplay" /\ value.kind = "String" ->
            [o EXCEPT !.currency_display = CurrencyDisplayFrom(value.s)]
      [] key = "minimumIntegerDigits" /\ value.kind = "Number" ->
            [o EXCEPT !.minimum_integer_digits = Some(AsUsize(value.n))]
      [] key = "minimumFractionDigits" /\ value.kind = "Number" ->
            [o EXCEPT !.minimum_fraction_digits = Some(AsUsize(value.n))]
      [] key = "maximumFractionDigits" /\ value.kind = "Number" ->
            [o EXCEPT !.maximum_fraction_digits = Some(AsUsize(value.n))]
      [] key = "minimumSignificantDigits" /\ value.kind = "Number" ->
            [o EXCEPT !.minimum_significant_digits = Some(AsUsize(value.n))]
      [] key = "maximumSignificantDigits" /\ value.kind = "Number" ->
            [o EXCEPT !.maximum_significant_digits = Some(AsUsize(value.n))]
      [] OTHER -> o

\* merge leaving its loop after the first pair.
MergeOptionsFirstPair(o, opts) ==
    IF opts = <<>> THEN o ELSE MergePair(o, opts[1].key, opts[1].value)

\* FluentNumberOptions::merge over the pairs of opts in iteration order.
RECURSIVE MergeOptions(_, _)
MergeOptions(o, opts) ==
    IF opts = <<>> THEN o
    ELSE MergeOptions(MergePair(o, opts[1].key, opts[1].value), Tail(opts))

-----------------------------------------------------------------------------
(* FluentNumber *)

\* FluentNumber::new
NewNumber(value, options) == [value |-> value, options |-> options]

\* The precision as_string formats with: maximum_fraction_digits or 15,
\* at most 9 where usize is narrower than 8 bytes.
DefaultMaxFrac == 15
NarrowMaxFrac == 9
WideUsize == 8

MaxFracDigits(n, usize) ==
    LET m == UnwrapOr(n.options.maximum_fraction_digits, DefaultMaxFrac)
    IN IF usize < WideUsize /\ m > NarrowMaxFrac THEN NarrowMaxFrac ELSE m

\* The text before minimum_fraction_digits is applied: formatted with the
\* maximum precision, trailing zeros removed.
Trimmed(n, usize) ==
    TrimEndMatches(FormatFixed(n.value, MaxFracDigits(n, usize)), "0")

\* PadToMinimum appending minfd zeros whatever fraction val has.
PadToMinimumWhole(val, minfd) ==
    IF Find(val, ".") = None THEN [status |-> "panic", str |-> <<>>]
    ELSE [status |-> "ok", str |-> val \o Repeat("0", minfd)]

\* The zeros appended to val for minimum_fraction_digits = minfd.  find('.')
\* is expect()ed; minfd - frac_num is a usize subtraction, which panics when
\* overflow is checked and otherwise wraps to a count that "0".repeat cannot
\* allocate (capacity overflow): as_string does not return either way.
PadToMinimum(val, minfd) ==
    LET pos == Find(val, ".")
    IN IF pos = None THEN [status |-> "panic", str |-> <<>>]
       ELSE LET frac_num == Len(val) - Unwrap(pos) - 1
            IN IF minfd < frac_num THEN [status |-> "panic", str |-> <<>>]
               ELSE LET zeros_needed == minfd - frac_num
                    IN IF zeros_needed > 0
                       THEN [status |-> "ok", str |-> val \o Repeat("0", zeros_needed)]
                       ELSE [status |-> "ok", str |-> val]

\* FluentNumber::as_string
AsString(n, usize) ==
    LET val == Trimmed(n, usize)
        padded == IF IsSome(n.options.minimum_fraction_digits)
                  THEN PadToMinimum(val, Unwrap(n.options.minimum_fraction_digits))
                  ELSE [status |-> "ok", str |-> val]
    IN IF padded.status = "ok"
       THEN [status |-> "ok", str |-> TrimEndMatches(padded.str, ".")]
       ELSE padded

\* Whether f64::from_str accepts the text (of the texts the model hands it:
\* digits, with at most one '.' among them, at least one digit).
IsDecimalText(input) ==
    /\ \A i \in 1..Len(input) : input[i] = "." \/ \E d \in 0..9 : DigitChar[d + 1] = input[i]
    /\ Cardinality({i \in 1..Len(input) : input[i] = "."}) <= 1
    /\ \E i \in 1..Len(input) : input[i] # "."

\* The double f64::from_str gives for an accepted text.
ParseF64(input) ==
    LET pos == Find(input, ".")
        ip == IF pos = None THEN input ELSE SubSeq(input, 1, Unwrap(pos))
        fp == IF pos = None THEN <<>> ELSE SubSeq(input, Unwrap(pos) + 2, Len(input))
    IN F64FromDecimal(DigitsNat(Digits(ip)), Digits(fp))

\* impl FromStr for FluentNumber, on an accepted text
FromStrNumber(input) ==
    LET pos == Find(input, ".")
        mfd == IF pos = None THEN None ELSE Some(Len(input) - Unwrap(pos) - 1)
    IN NewNumber(ParseF64(input), [DefaultOptions EXCEPT !.minimum_fraction_digits = mfd])

\* from_num!: FluentNumber::from(n) for a primitive n
FromNumNumber(value) == NewNumber(value, DefaultOptions)

-----------------------------------------------------------------------------
(* PluralOperands *)

\* usize::MAX, in decimal digits.
UsizeMax(usize) ==
    IF usize < WideUsize
    THEN <<4, 2, 9, 4, 9, 6, 7, 2, 9, 5>>
    ELSE <<1, 8, 4, 4, 6, 7, 4, 4, 0, 7, 3, 7, 0, 9, 5, 5, 1, 6, 1, 5>>

\* a <= b, for numbers in decimal digits without leading zeros.
LeqDigits(a, b) ==
    \/ Len(a) < Len(b)
    \/ /\ Len(a) = Len(b)
       /\ \/ a = b
          \/ \E i \in 1..Len(a) : a[i] < b[i] /\ \A j \in 1..(i - 1) : a[j] = b[j]

\* usize::from_str on a text of digits: None for Err (no digit, or a number
\* above usize::MAX).
ParseUsize(cs, usize) ==
    IF cs = <<>> THEN None
    ELSE LET ds == TrimStartMatches(Digits(cs), 0)
             norm == IF ds = <<>> THEN <<0>> ELSE ds
         IN IF LeqDigits(norm, UsizeMax(usize)) THEN Some(norm) ELSE None

NoOperands == [status |-> "none", i |-> 0, v |-> 0, w |-> 0, f |-> <<0>>, t |-> <<0>>]
OperandsPanic == [status |-> "panic", i |-> 0, v |-> 0, w |-> 0, f |-> <<0>>, t |-> <<0>>]

\* PluralOperands::try_from(&str), expect()ed: the operands of a text of
\* digits with at most one '.', a panic for Err.
OperandsFromStr(s, usize) ==
    IF ~IsDecimalText(s) THEN OperandsPanic
    ELSE LET pos == Find(s, ".")
         IN IF pos = None
            THEN [status |-> "ok", i |-> AsUsize(ParseF64(s)), v |-> 0, w |-> 0,
                  f |-> <<0>>, t |-> <<0>>]
            ELSE LET int_str == SubSeq(s, 1, Unwrap(pos))
                     dec_str == SubSeq(s, Unwrap(pos) + 2, Len(s))
                     backtrace == TrimEndMatches(dec_str, "0")
                     i == ParseUsize(int_str, usize)
                     f == ParseUsize(dec_str, usize)
                     t == ParseUsize(backtrace, usize)
                 IN IF i = None \/ f = None THEN OperandsPanic
                    ELSE [status |-> "ok",
                          i |-> DigitsNat(Unwrap(i)),
                          v |-> Len(dec_str),
                          w |-> Len(backtrace),
                          f |-> Unwrap(f),
                          t |-> UnwrapOr(t, <<0>>)]

\* f * 10_usize.pow(d), a panic (None) when the power or the product
\* overflows usize with overflow checked.
MulPow10(f, d, usize) ==
    LET pow == <<1>> \o Repeat(0, d)
        prod == IF f = <<0>> THEN <<0>> ELSE f \o Repeat(0, d)
    IN IF LeqDigits(pow, UsizeMax(usize)) /\ LeqDigits(prod, UsizeMax(usize))
       THEN Some(prod) ELSE None

\* The reconciliation with minimum_fraction_digits.
Reconcile(ops, mfd, usize) ==
    IF mfd > ops.v
    THEN LET f == MulPow10(ops.f, mfd - ops.v, usize)
         IN IF f = None THEN OperandsPanic
            ELSE [ops EXCEPT !.f = Unwrap(f), !.v = mfd]
    ELSE ops

\* impl From<&FluentNumber> for PluralOperands
IntoPluralOperands(n, usize) ==
    LET text == AsString(n, usize)
    IN IF text.status # "ok" THEN OperandsPanic
       ELSE LET ops == OperandsFromStr(text.str, usize)
            IN IF ops.status = "ok" /\ IsSome(n.options.minimum_fraction_digits)
               THEN Reconcile(ops, Unwrap(n.options.minimum_fraction_digits), usize)
               ELSE ops

-----------------------------------------------------------------------------
(* Inputs *)

\* size_of::<usize>() of the targets: 32-bit and 64-bit.
UsizeBytes == {4, 8}

\* Numbers written as a literal or as text: integer part and fraction digits.
IntParts == {0, 1, 3, 10, 100}
FracDigits == {0, 1, 4, 5}

RECURSIVE SeqsUpTo(_, _)
SeqsUpTo(S, n) ==
    IF n = 0 THEN {<<>>}
    ELSE LET shorter == SeqsUpTo(S, n - 1)
         IN shorter \cup {Append(q, x) : q \in {r \in shorter : Len(r) = n - 1}, x \in S}

\* The decimal texts handed to from_str, and one text that is no number.
Texts ==
    {Chars(NatDigits(I)) \o (IF fd = <<>> THEN <<>> ELSE <<".">> \o Chars(fd)) :
        I \in IntParts, fd \in SeqsUpTo(FracDigits, MaxFracLen)}
    \cup {<<"1", ".", "5", ".">>}

\* The primitive numbers (the doubles the literals denote).
Literals ==
    {<<"0">>, <<"1">>, <<"5">>, <<"1", "0">>, <<"1", "0", "0">>,
     <<"1", ".", "2", "5">>, <<"1", ".", "5">>, <<"2", ".", "5">>,
     <<"0", ".", "3">>, <<"1", "0", "0", ".", "1">>, <<"1", "2", "3", "4", ".", "5">>}

DigitCounts == {None} \cup {Some(d) : d \in 0..MaxDigits}

Sources ==
    [kind : {"str"}, text : Texts, maxfd : {None}, minfd : {None}]
    \cup [kind : {"num"}, text : Literals, maxfd : {None}, minfd : {None}]
    \cup [kind : {"new"}, text : Literals, maxfd : DigitCounts, minfd : DigitCounts]

Keys ==
    {"style", "currency", "currencyDisplay", "useGrouping",
     "minimumIntegerDigits", "minimumFractionDigits", "maximumFractionDigits",
     "minimumSignificantDigits", "maximumSignificantDigits", "unknownOption"}

ArgValues ==
    {FvString("percent"), FvString("code"),
     FvNumber([int |-> 2, frac |-> <<5>>]), FvNumber([int |-> 0, frac |-> <<>>])}

Pairs == [key : Keys, value : ArgValues]

\* The argument mappings, as the sequences their iteration can give: pairs
\* with distinct keys.
ArgSeqs ==
    {a \in SeqsUpTo(Pairs, MaxArgs) :
        \A i, j \in 1..Len(a) : i # j => a[i].key # a[j].key}

\* The mappings merged into a number before it is formatted.
FormatArgs ==
    {<<[key |-> "currency", value |-> FvString("USD")],
       [key |-> "minimumFractionDigits", value |-> FvNumber([int |-> 2, frac |-> <<>>])]>>,
     <<[key |-> "minimumFractionDigits", value |-> FvNumber([int |-> 1, frac |-> <<>>])]>>,
     <<[key |-> "maximumFractionDigits", value |-> FvNumber([int |-> 0, frac |-> <<>>])]>>}

StartOptions ==
    {DefaultOptions,
     [DefaultOptions EXCEPT !.style = "Percent", !.currency = Some("EUR"),
                            !.currency_display = "Name", !.use_grouping = FALSE,
                            !.minimum_fraction_digits = Some(2)]}

-----------------------------------------------------------------------------
(* The state machine *)

NoText == [status |-> "none", str |-> <<>>]

Zero == [int |-> 0, frac |-> <<>>]

\* A number is about to be made from src on a target with env-byte usize.
Init ==
    /\ env \in UsizeBytes
    /\ src \in Sources
    /\ num = NewNumber(Zero, DefaultOptions)
    /\ out = NoText
    /\ operands = NoOperands
    /\ margs = <<>>
    /\ before = DefaultOptions
    /\ op = "start"

\* "text".parse::<FluentNumber>()
FromStr ==
    /\ op = "start"
    /\ src.kind = "str"
    /\ IF IsDecimalText(src.text)
       THEN num' = FromStrNumber(src.text) /\ op' = "from_str"
       ELSE num' = num /\ op' = "parse_error"
    /\ UNCHANGED <<env, src, out, operands, margs, before>>

\* FluentNumber::from(n)
FromNum ==
    /\ op = "start"
    /\ src.kind = "num"
    /\ num' = FromNumNumber(ParseF64(src.text))
    /\ op' = "from_num"
    /\ UNCHANGED <<env, src, out, operands, margs, before>>

\* FluentNumber::new(value, options), the fraction-digit options set directly
New ==
    /\ op = "start"
    /\ src.kind = "new"
    /\ num' = NewNumber(ParseF64(src.text),
                        [DefaultOptions EXCEPT !.maximum_fraction_digits = src.maxfd,
                                               !.minimum_fraction_digits = src.minfd])
    /\ op' = "new"
    /\ UNCHANGED <<env, src, out, operands, margs, before>>

Constructed == {"from_str", "from_num", "new"}

\* num.options.merge(opts), opts iterated in the order of the sequence
Merge(opts) ==
    /\ num' = [num EXCEPT !.options = MergeOptions(num.options, opts)]
    /\ margs' = opts
    /\ before' = num.options
    /\ op' = "merge"
    /\ UNCHANGED <<env, src, out, operands>>

MergeFormatArgs == op \in Constructed /\ \E opts \in FormatArgs : Merge(opts)

MergeArgs == op \in Constructed /\ \E opts \in ArgSeqs : Merge(opts)

Orders(q) ==
    {p \in [1..Len(q) -> 1..Len(q)] : \A i, j \in 1..Len(q) : i # j => p[i] # p[j]}

\* The same mapping merged once more, iterated in any order.
MergeAgain ==
    /\ op = "merge"
    /\ \E p \in Orders(margs) :
          num' = [num EXCEPT !.options =
                     MergeOptions(num.options, [i \in 1..Len(margs) |-> margs[p[i]]])]
    /\ before' = num.options
    /\ op' = "merge_again"
    /\ UNCHANGED <<env, src, out, operands, margs>>

Made == Constructed \cup {"merge", "merge_again", "as_string", "operands"}

\* num.as_string()
AsStringCall ==
    /\ op \in Made
    /\ out' = AsString(num, env)
    /\ op' = "as_string"
    /\ UNCHANGED <<env, src, num, operands, margs, before>>

\* PluralOperands::from(&num)
IntoOperandsCall ==
    /\ op \in Made
    /\ operands' = IntoPluralOperands(num, env)
    /\ op' = "operands"
    /\ UNCHANGED <<env, src, num, out, margs, before>>

Next ==
    \/ FromStr
    \/ FromNum
    \/ New
    \/ MergeFormatArgs
    \/ AsStringCall
    \/ IntoOperandsCall

Spec == Init /\ [][Next]_vars

\* Options being patched by merge alone.
InitMerge ==
    /\ env = 8
    /\ src = [kind |-> "new", text |-> <<"5">>, maxfd |-> None, minfd |-> None]
    /\ \E o \in StartOptions : num = NewNumber([int |-> 5, frac |-> <<>>], o)
    /\ out = NoText
    /\ operands = NoOperands
    /\ margs = <<>>
    /\ before = DefaultOptions
    /\ op = "new"

NextMerge ==
    \/ MergeArgs
    \/ MergeAgain

SpecMerge == InitMerge /\ [][NextMerge]_vars

-----------------------------------------------------------------------------
(* Properties *)

MinFd == num.options.minimum_fraction_digits
MaxFd == num.options.maximum_fraction_digits

HasPoint(s) == Find(s, ".") # None

\* The characters after the first '.', none when there is no '.'.
FractionOf(s) ==
    IF HasPoint(s) THEN SubSeq(s, Unwrap(Find(s, ".")) + 2, Len(s)) ELSE <<>>

\* The fraction left after formatting at the maximum precision and trimming.
CanonicalFraction == FractionOf(Trimmed(num, env))

\* A number in decimal digits without leading zeros.
Normal(ds) ==
    IF TrimStartMatches(ds, 0) = <<>> THEN <<0>> ELSE TrimStartMatches(ds, 0)

FieldNames == DOMAIN DefaultOptions

\* The argument key naming each field, and the kind of value it takes.
OptionKey ==
    [style |-> "style",
     currency |-> "currency",
     currency_display |-> "currencyDisplay",
     use_grouping |-> "useGrouping",
     minimum_integer_digits |-> "minimumIntegerDigits",
     minimum_fraction_digits |-> "minimumFractionDigits",
     maximum_fraction_digits |-> "maximumFractionDigits",
     minimum_significant_digits |-> "minimumSignificantDigits",
     maximum_significant_digits |-> "maximumSignificantDigits"]

TextFields == {"style", "currency", "currency_display", "use_grouping"}

ExpectedKind(f) == IF f \in TextFields THEN "String" ELSE "Number"

\* The pair names field f: its key is f's, its value of the expected kind.
NamesField(pair, f) ==
    pair.key = OptionKey[f] /\ pair.value.kind = ExpectedKind(f)

\* C1: with minimum_fraction_digits = m set and a fraction left after
\* trimming of m digits or more, as_string returns normally and appends no
\* zero: the result is the trimmed text.
C1_NoUnderflow ==
    (/\ op = "as_string"
     /\ IsSome(MinFd)
     /\ HasPoint(Trimmed(num, env))
     /\ Len(CanonicalFraction) >= Unwrap(MinFd))
    => (/\ out.status = "ok"
        /\ out.str = TrimEndMatches(Trimmed(num, env), "."))

\* C2: with maximum_fraction_digits = 0, as_string returns normally and its
\* text has no decimal point, minimum_fraction_digits set or not.
C2_NoPointAtZero ==
    (op = "as_string" /\ MaxFd = Some(0))
    => (out.status = "ok" /\ ~HasPoint(out.str))

\* C3: a non-negative integer n with maximum_fraction_digits = 0 and no
\* minimum_fraction_digits is formatted as the decimal numeral of n.
C3_IntegerNumeral ==
    (/\ op = "as_string"
     /\ MaxFd = Some(0)
     /\ MinFd = None
     /\ num.value.frac = <<>>)
    => (out.status = "ok" /\ out.str = Chars(NatDigits(num.value.int)))

\* C4: a plain decimal text parsed by from_str and formatted by as_string
\* comes back character for character, minimum_fraction_digits being the
\* number of fraction digits written; a text with no decimal point has no
\* minimum_fraction_digits and comes back with no decimal point.
C4_RoundTrip ==
    (/\ op = "as_string"
     /\ src.kind = "str"
     /\ margs = <<>>)
    => IF HasPoint(src.text)
       THEN /\ MinFd = Some(Len(FractionOf(src.text)))
            /\ out.status = "ok"
            /\ out.str = src.text
       ELSE /\ MinFd = None
            /\ out.status = "ok"
            /\ ~HasPoint(out.str)

\* C5: with minimum_fraction_digits = m and a value whose fraction has fewer
\* than m digits, whatever maximum_fraction_digits is, as_string returns a
\* text with exactly m fraction digits: the value's own, then zeros.
C5_ExactlyMinimum ==
    (/\ op = "as_string"
     /\ IsSome(MinFd)
     /\ Len(CanonicalFraction) < Unwrap(MinFd))
    => (/\ out.status = "ok"
        /\ FractionOf(out.str) =
              CanonicalFraction \o Repeat("0", Unwrap(MinFd) - Len(CanonicalFraction)))

\* C6: each of the nine fields of the options has an argument key and a
\* value with which merge updates the field (to a value it did not hold).
C6_NineOptionNames ==
    \A f \in FieldNames :
        \E pair \in Pairs :
            MergePair(num.options, pair.key, pair.value)[f] # num.options[f]

\* C7: merge changes no field that no pair of the mapping names: a pair with
\* an unrecognized key, or with a value of the wrong kind, changes nothing,
\* and every other pair changes at most the field its key names.
C7_MergeFrame ==
    op = "merge" =>
        /\ num.options = MergeOptions(before, margs)
        /\ \A f \in FieldNames :
              (\A i \in 1..Len(margs) : ~NamesField(margs[i], f))
              => num.options[f] = before[f]
        /\ \A i \in 1..Len(margs) :
              LET o1 == MergeOptions(before, SubSeq(margs, 1, i - 1))
                  o2 == MergePair(o1, margs[i].key, margs[i].value)
              IN \A f \in FieldNames : ~NamesField(margs[i], f) => o2[f] = o1[f]

\* A mapping with a numeric "style" was merged into options whose style is
\* not the default, and the options are as before.
C7_Witness ==
    /\ op = "merge"
    /\ before.style = "Percent"
    /\ \E i \in 1..Len(margs) : margs[i].key = "style" /\ margs[i].value.kind = "Number"
    /\ \E i \in 1..Len(margs) : margs[i].key = "unknownOption"
    /\ num.options = before

C9_OrderIndependent ==
    /\ op = "merge" =>
          \A p \in Orders(margs) :
              MergeOptions(before, [i \in 1..Len(margs) |-> margs[p[i]]]) = num.options
    /\ op = "merge_again" => num.options = before

\* A mapping of two effective pairs was merged twice.
C9_Witness ==
    /\ op = "merge_again"
    /\ Len(margs) = 2
    /\ margs[1].key = "style" /\ margs[1].value.kind = "String"
    /\ margs[2].key = "minimumFractionDigits" /\ margs[2].value.kind = "Number"
    /\ num.options.style = "Percent"
    /\ MinFd = Some(2)

\* C10: where usize is narrower than 64 bits, the text as_string returns
\* has at most 9 fraction digits.
C10_NarrowFraction ==
    (env < WideUsize /\ out.status = "ok")
    => Len(FractionOf(out.str)) <= NarrowMaxFrac

====
